---- MODULE Spec2Model ----
(***************************************************************************)
(* process-scaler (src/main.py): a supervisor spawns a child process,      *)
(* starts a daemon thread that once per second pushes the memory, CPU and  *)
(* GPU ceilings through three actuators, waits for the child and sets an   *)
(* Event that ends the thread's loop.                                      *)
(*                                                                         *)
(* Two units of execution are interleaved: the main thread (run) and the   *)
(* monitor thread (monitor_memory_and_cpu); the child is a third party     *)
(* that exits on its own or is ended by a signal, and that may change its  *)
(* own niceness and core set.  Every position between two statements that  *)
(* the other thread can observe is a value of supPc / monPc.               *)
(***************************************************************************)
EXTENDS Integers, Sequences, FiniteSets, TLC

VARIABLES
    supPc,            \* position of the main thread in run()
    monPc,            \* position of the monitor thread in monitor_memory_and_cpu()
    child,            \* the child process: "none", "running", "zombie", "reaped"
    exitStatus,       \* the status the child ended with, -N for signal N: None until then
    childActs,        \* history: how often the child has changed its own niceness or core set
    returncode,       \* proc.returncode: None until proc.wait() has reaped the child
    process_finished, \* the threading.Event of run()
    soft,             \* RLIMIT_AS soft limit of the supervisor process
    hard,             \* RLIMIT_AS hard limit of the supervisor process
    childSoft,        \* RLIMIT_AS soft limit the child inherited at spawn
    num_cpus,         \* psutil.cpu_count(logical=True) of the host
    affinitySupported,\* whether psutil.Process has cpu_affinity on this platform
    cap_sys_nice,     \* whether the supervisor and the child hold CAP_SYS_NICE
    cpuset,           \* the cores the cpuset of the supervisor's cgroup allows
    affinity,         \* the eligible-core set of the process that holds the child's pid
    nice,             \* the niceness of the process that holds the child's pid
    ceiling,          \* the loop's locals max_memory_bytes, max_cpu_percent, max_gpu_percent
    num_cores,        \* the local num_cores of adjust_cpu_limit
    monError,         \* the exception that ended the monitor thread, "none" if none
    failedAct,        \* the actuator that raised it: "none", "mem", "cpu"
    runResult,        \* what run() returned: None
    runError,         \* the exception run() raised, "none" if none
    programExit,      \* the exit code of the program: None while it runs
    calls,            \* history: actuator invocations in the current cycle
    setCount,         \* history: number of process_finished.set() calls
    startedAfterSet,  \* history: cycles begun while the Event was set
    completedAfterSet,\* history: cycles completed while the Event was set
    cyclesDone,       \* history: cycles whose three actuator calls have ended
    firstCycle,       \* history: the resource state at the end of the first cycle, None before
    actsAtFirst,      \* history: the value of childActs when the first cycle began
    reapedInCycle     \* history: the child was reaped between the signal check and the CPU call

vars == <<supPc, monPc, child, exitStatus, childActs, returncode, process_finished, soft,
          hard, childSoft, num_cpus, affinitySupported, cap_sys_nice, affinity, nice, ceiling,
          num_cores,
          monError, failedAct, runResult, runError, programExit, calls, setCount,
          startedAfterSet, completedAfterSet, cyclesDone, firstCycle, actsAtFirst,
          reapedInCycle, cpuset>>

supVars == <<supPc, returncode, process_finished, runResult, runError, programExit, setCount>>
childVars == <<child, exitStatus, childActs>>
limitVars == <<soft, hard, childSoft>>
hostVars == <<num_cpus, affinitySupported, cap_sys_nice, cpuset>>
cpuVars == <<affinity, nice>>
monVars == <<monPc, ceiling, num_cores, monError, failedAct, calls, startedAfterSet,
             completedAfterSet, cyclesDone, firstCycle, actsAtFirst>>

----------------------------------------------------------------------------
(* Bounds of the model *)

NonzeroExit == 1
KillSignal == 1
MaxCpus == 2
HardUnits == 1
HighNice == 15
MaxChildActs == 1
MaxCount == 2

(* Python's None and an Optional value *)
None == <<>>
Some(x) == <<x>>

(* what Popen.returncode can be: 0 or a nonzero exit code of the child, or -N *)
(* when signal N ended it                                                     *)
ExitCodes == {-KillSignal, 0, NonzeroExit}

(* the signal of Ctrl-C *)
SIGINT == 2

(* resource.RLIM_INFINITY as Python shows it *)
RLIM_INFINITY == -1

MiB512 == 512 * 1024 * 1024

(* the hard limits of the model: a finite one, of HardUnits times 512 MiB, and none *)
HardLimits == {HardUnits * MiB512, RLIM_INFINITY}

Min(a, b) == IF a <= b THEN a ELSE b
Max(a, b) == IF a >= b THEN a ELSE b

(* rlim_t is unsigned: a negative Python value is a huge limit, -1 the largest *)
RlimLE(a, b) ==
    IF (a >= 0) = (b >= 0) THEN a <= b ELSE b < 0

----------------------------------------------------------------------------
(* Limit Policy: the constant-returning stubs *)

get_max_memory == 1024 * 1024 * 1024
get_max_cpu == 50
get_max_gpu == 50

(* the niceness adjust_cpu_limit sets *)
BelowNormal == 10

(* the lowest and the highest niceness of the host *)
MinNice == -20
MaxNice == 19

(* the niceness values the supervisor is started with, or the child gives itself: *)
(* the default, and a level above the 10 of adjust_cpu_limit (a level below 10,    *)
(* negative ones included, is raised to 10 like the default)                       *)
NiceLevels == {0, HighNice}

(* the core sets a process can be restricted to on a host of n cores *)
CoreSets(n) == (SUBSET (0..(n - 1))) \ {{}}

(* int(x / y) of Python for y > 0: truncation toward zero *)
IntDiv(x, y) == IF x >= 0 THEN x \div y ELSE -((-x) \div y)

(* num_cores = max(1, int(num_cpus * value / 100)) *)
NumCores(n, value) == Max(1, IntDiv(n * value, 100))

(* list(range(num_cores)) as the set psutil makes of it *)
CoreList(k) == 0..(k - 1)

(* resource.setrlimit(RLIMIT_AS, (value, hard)) succeeds iff value <= hard *)
SetrlimitOk(value, h) == RlimLE(value, h)

----------------------------------------------------------------------------
(* State after the interpreter has loaded the module, before run() is called. *)
(* The host decides the limits of the supervisor, the core count, whether      *)
(* core affinity exists on the platform, whether the supervisor holds          *)
(* CAP_SYS_NICE (root outside a container that drops it) and which cores the   *)
(* cpuset of its cgroup allows; the supervisor may have been started under     *)
(* nice or taskset, and the child inherits its niceness, core set and cgroup.  *)

NoCalls == [mem |-> 0, cpu |-> 0, gpu |-> 0]

Init ==
    /\ supPc = "spawn"
    /\ monPc = "idle"
    /\ child = "none"
    /\ exitStatus = None
    /\ childActs = 0
    /\ returncode = None
    /\ process_finished = FALSE
    /\ hard \in HardLimits
    /\ soft \in {s \in HardLimits : RlimLE(s, hard)}
    /\ childSoft = None
    /\ num_cpus \in 1..MaxCpus
    /\ affinitySupported \in BOOLEAN
    /\ cap_sys_nice \in BOOLEAN
    /\ cpuset \in (IF affinitySupported THEN CoreSets(num_cpus) ELSE {0..(num_cpus - 1)})
    /\ affinity \in (IF affinitySupported THEN {cs \in CoreSets(num_cpus) : cs \subseteq cpuset}
                                          ELSE {cpuset})
    /\ nice \in NiceLevels
    /\ ceiling = NoCalls
    /\ num_cores = 0
    /\ monError = "none"
    /\ failedAct = "none"
    /\ runResult = None
    /\ runError = "none"
    /\ programExit = None
    /\ calls = NoCalls
    /\ setCount = 0
    /\ startedAfterSet = 0
    /\ completedAfterSet = 0
    /\ cyclesDone = 0
    /\ firstCycle = None
    /\ actsAtFirst = 0
    /\ reapedInCycle = FALSE

(* the resource attributes the actuators act on *)
Resources == [soft |-> soft, hard |-> hard, affinity |-> affinity, nice |-> nice]

(* the interpreter has not exited: its threads still run *)
ProcessAlive == supPc # "exited"

----------------------------------------------------------------------------
(* The child process *)

(* the child terminates on its own with an exit code, or a signal ends it; it  *)
(* stays a zombie until the supervisor's wait reaps it, or, where the          *)
(* supervisor was started with SIGCHLD ignored, the kernel reaps it at once    *)
ChildExit ==
    /\ child = "running"
    /\ \E c \in ExitCodes : exitStatus' = Some(c)
    /\ child' \in {"zombie", "reaped"}
    /\ UNCHANGED <<childActs, supVars, limitVars, hostVars, cpuVars, monVars, reapedInCycle>>

(* the child changes its own niceness (setpriority, nice): upward, or to any *)
(* level when it holds CAP_SYS_NICE                                          *)
ChildRenice ==
    /\ child = "running"
    /\ childActs < MaxChildActs
    /\ \E n \in NiceLevels :
         /\ n # nice
         /\ cap_sys_nice \/ n > nice
         /\ nice' = n
    /\ childActs' = childActs + 1
    /\ UNCHANGED <<child, exitStatus, affinity, supVars, limitVars, hostVars, monVars,
                   reapedInCycle>>

(* the child changes its own core set (sched_setaffinity), within its cpuset *)
ChildSetAffinity ==
    /\ child = "running"
    /\ childActs < MaxChildActs
    /\ affinitySupported
    /\ \E cs \in CoreSets(num_cpus) :
         /\ cs \subseteq cpuset
         /\ cs # affinity
         /\ affinity' = cs
    /\ childActs' = childActs + 1
    /\ UNCHANGED <<child, exitStatus, nice, supVars, limitVars, hostVars, monVars,
                   reapedInCycle>>

Child == ChildExit \/ ChildRenice \/ ChildSetAffinity

----------------------------------------------------------------------------
(* The Supervisor: run() *)

(* the exceptions subprocess.Popen(sys.argv[1:]) ends with when no child is made: *)
(* OSError (FileNotFoundError, PermissionError, exec format error) for a command *)
(* that cannot be executed, IndexError for an empty command                      *)
SpawnErrors == {"OSError", "IndexError"}

(* A SIGINT (Ctrl-C, kill -INT) reaches the main thread at whatever statement it *)
(* executes: Python raises KeyboardInterrupt there and run(), which catches      *)
(* nothing, ends with it.                                                        *)

(* a mutant of SupSpawn: a failed spawn is swallowed and run() goes on *)
SupSpawn_IgnoresFailure ==
    /\ supPc = "spawn"
    /\ \/ /\ child' = "running"
          /\ childSoft' = Some(soft)
          /\ supPc' = "start_thread"
          /\ runError' = runError
       \/ /\ \E err \in SpawnErrors : runError' = err
          /\ supPc' = "start_thread"
          /\ UNCHANGED <<child, childSoft>>
       \/ /\ runError' = "KeyboardInterrupt"
          /\ supPc' = "raised"
          /\ \/ UNCHANGED <<child, childSoft>>
             \/ child' = "running" /\ childSoft' = Some(soft)
    /\ UNCHANGED <<returncode, process_finished, runResult, programExit, setCount,
                   exitStatus, childActs, soft, hard, hostVars, cpuVars, monVars,
                   reapedInCycle>>

(* proc = subprocess.Popen(sys.argv[1:]): the child is created with the limits *)
(* the supervisor has at that moment, or Popen raises and run() ends with it.  *)
(* A KeyboardInterrupt ends the call before the fork, or after it: the child   *)
(* then runs although run() has ended                                          *)
SupSpawn ==
    /\ supPc = "spawn"
    /\ \/ /\ child' = "running"
          /\ childSoft' = Some(soft)
          /\ supPc' = "start_thread"
          /\ runError' = runError
       \/ /\ \E err \in SpawnErrors : runError' = err
          /\ supPc' = "raised"
          /\ UNCHANGED <<child, childSoft>>
       \/ /\ runError' = "KeyboardInterrupt"
          /\ supPc' = "raised"
          /\ \/ UNCHANGED <<child, childSoft>>
             \/ child' = "running" /\ childSoft' = Some(soft)
    /\ UNCHANGED <<returncode, process_finished, runResult, programExit, setCount,
                   exitStatus, childActs, soft, hard, hostVars, cpuVars, monVars,
                   reapedInCycle>>

(* a faulty variant of SupStartThread: run() can start the monitor thread again *)
SupStartThread_Restarts ==
    /\ supPc = "start_thread"
    /\ process_finished' = FALSE
    /\ \/ /\ monPc' = "check"
          /\ supPc' \in {"start_thread", "wait"}
          /\ runError' = runError
       \/ /\ runError' = "RuntimeError"
          /\ supPc' = "raised"
          /\ monPc' = monPc
       \/ /\ runError' = "KeyboardInterrupt"
          /\ supPc' = "raised"
          /\ monPc' \in {monPc, "check"}
    /\ UNCHANGED <<returncode, runResult, programExit, setCount, childVars,
                   limitVars, hostVars, cpuVars, ceiling, num_cores, monError, failedAct,
                   calls, startedAfterSet, completedAfterSet, cyclesDone, firstCycle,
                   actsAtFirst, reapedInCycle>>

(* process_finished = threading.Event(); the daemon thread is created and started. *)
(* Thread.start() raises RuntimeError (can't start new thread) where the host      *)
(* refuses a new thread (RLIMIT_NPROC, no memory left under RLIMIT_AS): run() ends *)
(* with it, no monitor thread exists and the child runs on, never waited for.      *)
(* A KeyboardInterrupt in lines 67 to 74 ends run() before the thread exists, or   *)
(* with the thread already running                                                 *)
SupStartThread ==
    /\ supPc = "start_thread"
    /\ process_finished' = FALSE
    /\ \/ /\ monPc' = "check"
          /\ supPc' = "wait"
          /\ runError' = runError
       \/ /\ runError' = "RuntimeError"
          /\ supPc' = "raised"
          /\ monPc' = monPc
       \/ /\ runError' = "KeyboardInterrupt"
          /\ supPc' = "raised"
          /\ monPc' \in {monPc, "check"}
    /\ UNCHANGED <<returncode, runResult, programExit, setCount, childVars,
                   limitVars, hostVars, cpuVars, ceiling, num_cores, monError, failedAct,
                   calls, startedAfterSet, completedAfterSet, cyclesDone, firstCycle,
                   actsAtFirst, reapedInCycle>>

(* a mutant of SupWait: the wait returns while the child still runs *)
SupWait_NoBlock ==
    /\ supPc = "wait"
    /\ \/ /\ child \in {"running", "zombie", "reaped"}
          /\ child' = IF child = "zombie" THEN "reaped" ELSE child
          /\ returncode' = CASE child = "zombie" -> exitStatus
                             [] child = "reaped" -> Some(0)
                             [] OTHER -> returncode
          /\ reapedInCycle' = IF child = "zombie" THEN monPc \in {"poll", "mem", "cpu"}
                                                  ELSE reapedInCycle
          /\ supPc' = "set"
          /\ runError' = runError
       \/ /\ runError' = "KeyboardInterrupt"
          /\ supPc' = "raised"
          /\ \/ UNCHANGED <<child, returncode, reapedInCycle>>
             \/ /\ child = "zombie"
                /\ child' = "reaped"
                /\ returncode' \in {exitStatus, Some(0)}
                /\ reapedInCycle' = (monPc \in {"poll", "mem", "cpu"})
             \/ /\ child = "reaped"
                /\ returncode' = Some(0)
                /\ UNCHANGED <<child, reapedInCycle>>
    /\ UNCHANGED <<exitStatus, childActs, process_finished, runResult, programExit,
                   setCount, limitVars, hostVars, cpuVars, monVars>>

(* proc.wait(): blocks until the child has ended, reaps it and stores its status; *)
(* when the kernel has reaped the child already (SIGCHLD ignored) waitpid fails   *)
(* with ECHILD and the status is taken to be 0.  A SIGINT that arrives while the  *)
(* main thread is at line 77 makes the call raise KeyboardInterrupt, run() ends   *)
(* with the exception and line 80 is not reached.  What the interrupted call has  *)
(* done depends on where it was: before Popen.wait has entered its try nothing    *)
(* (an ended child stays a zombie, returncode stays None); inside the wait,       *)
(* Popen.wait waits once more for a quarter of a second, which reaps a child that *)
(* has ended and stores its status; between waitpid and the storing of the status *)
(* the status is lost, the second wait gets ECHILD and stores 0                   *)
SupWait ==
    /\ supPc = "wait"
    /\ \/ /\ child \in {"zombie", "reaped"}
          /\ child' = "reaped"
          /\ returncode' = IF child = "zombie" THEN exitStatus ELSE Some(0)
          /\ reapedInCycle' = IF child = "zombie" THEN monPc \in {"poll", "mem", "cpu"}
                                                  ELSE reapedInCycle
          /\ supPc' = "set"
          /\ runError' = runError
       \/ /\ runError' = "KeyboardInterrupt"
          /\ supPc' = "raised"
          /\ \/ UNCHANGED <<child, returncode, reapedInCycle>>
             \/ /\ child = "zombie"
                /\ child' = "reaped"
                /\ returncode' \in {exitStatus, Some(0)}
                /\ reapedInCycle' = (monPc \in {"poll", "mem", "cpu"})
             \/ /\ child = "reaped"
                /\ returncode' = Some(0)
                /\ UNCHANGED <<child, reapedInCycle>>
    /\ UNCHANGED <<exitStatus, childActs, process_finished, runResult, programExit,
                   setCount, limitVars, hostVars, cpuVars, monVars>>

(* process_finished.set(); run() falls off its end and returns None.  A          *)
(* KeyboardInterrupt at line 80 ends run() before the Event is set, or after it  *)
(* and before run() has returned                                                 *)
SupSet ==
    /\ supPc = "set"
    /\ \/ /\ process_finished' = TRUE
          /\ setCount' = Min(setCount + 1, MaxCount)
          /\ \/ supPc' = "returned" /\ runError' = runError
             \/ supPc' = "raised" /\ runError' = "KeyboardInterrupt"
       \/ /\ runError' = "KeyboardInterrupt"
          /\ supPc' = "raised"
          /\ UNCHANGED <<process_finished, setCount>>
    /\ runResult' = None
    /\ UNCHANGED <<returncode, programExit, childVars, limitVars,
                   hostVars, cpuVars, monVars, reapedInCycle>>

(* the exit status of the interpreter after run(): 0 when run() returned, 1 when *)
(* it raised; after a KeyboardInterrupt the interpreter ends itself with SIGINT, *)
(* which its parent sees as -2                                                   *)
ExitStatus ==
    IF supPc = "returned" THEN 0
    ELSE IF runError = "KeyboardInterrupt" THEN -SIGINT ELSE 1

(* the script ends after run() and the interpreter exits; a SIGINT that arrives   *)
(* while it shuts down ends it with -2 whatever run() did; the daemon thread is  *)
(* abandoned wherever it is                                                      *)
ProgramExit ==
    /\ supPc \in {"returned", "raised"}
    /\ programExit' \in {Some(ExitStatus), Some(-SIGINT)}
    /\ supPc' = "exited"
    /\ UNCHANGED <<returncode, process_finished, runResult, runError, setCount, childVars,
                   limitVars, hostVars, cpuVars, monVars, reapedInCycle>>

Supervisor ==
    SupSpawn \/ SupStartThread \/ SupWait \/ SupSet \/ ProgramExit

----------------------------------------------------------------------------
(* The Monitor Loop: monitor_memory_and_cpu(), on its own thread *)

Bump(n) == Min(n + 1, MaxCount)

(* a faulty variant of ThreadDies: the exception of the thread unwinds run() too *)
ThreadDies_Propagates(act, err) ==
    /\ monPc' = "dead"
    /\ monError' = err
    /\ failedAct' = act
    /\ supPc' = "raised"
    /\ runError' = err
    /\ UNCHANGED <<returncode, process_finished, runResult, programExit, setCount, childVars>>

(* the loop has no try/except: an exception of an actuator leaves the loop and *)
(* the thread's target, the thread ends; the main thread and the child are not *)
(* touched                                                                     *)
ThreadDies(act, err) ==
    /\ monPc' = "dead"
    /\ monError' = err
    /\ failedAct' = act
    /\ UNCHANGED <<supVars, childVars>>

(* the loop body is entered: a cycle begins *)
BeginCycle ==
    /\ monPc' = "poll"
    /\ calls' = NoCalls
    /\ startedAfterSet' = IF process_finished THEN Bump(startedAfterSet) ELSE startedAfterSet
    /\ actsAtFirst' = IF cyclesDone = 0 THEN childActs ELSE actsAtFirst
    /\ reapedInCycle' = FALSE

(* a faulty variant of MonCheck: while True *)
MonCheck_IgnoresSignal ==
    /\ ProcessAlive
    /\ monPc = "check"
    /\ BeginCycle
    /\ UNCHANGED <<supVars, childVars, limitVars, hostVars, cpuVars, ceiling, num_cores,
                   monError, failedAct, completedAfterSet, cyclesDone, firstCycle>>

(* while not process_finished.is_set(): *)
MonCheck ==
    /\ ProcessAlive
    /\ monPc = "check"
    /\ IF process_finished
         THEN /\ monPc' = "stopped"
              /\ UNCHANGED <<calls, startedAfterSet, actsAtFirst, reapedInCycle>>
         ELSE BeginCycle
    /\ UNCHANGED <<supVars, childVars, limitVars, hostVars, cpuVars, ceiling, num_cores,
                   monError, failedAct, completedAfterSet, cyclesDone, firstCycle>>

(* a faulty variant of MonPoll: the cycle starts with the CPU actuator *)
MonPoll_CpuFirst ==
    /\ ProcessAlive
    /\ monPc = "poll"
    /\ ceiling' = [mem |-> get_max_memory, cpu |-> get_max_cpu, gpu |-> get_max_gpu]
    /\ monPc' = "cpu"
    /\ UNCHANGED <<supVars, childVars, limitVars, hostVars, cpuVars, num_cores, monError,
                   failedAct, calls, startedAfterSet, completedAfterSet, cyclesDone,
                   firstCycle, actsAtFirst, reapedInCycle>>

(* the three ceilings are read from the Limit Policy *)
MonPoll ==
    /\ ProcessAlive
    /\ monPc = "poll"
    /\ ceiling' = [mem |-> get_max_memory, cpu |-> get_max_cpu, gpu |-> get_max_gpu]
    /\ monPc' = "mem"
    /\ UNCHANGED <<supVars, childVars, limitVars, hostVars, cpuVars, num_cores, monError,
                   failedAct, calls, startedAfterSet, completedAfterSet, cyclesDone,
                   firstCycle, actsAtFirst, reapedInCycle>>

(* a faulty variant of MonMem: setrlimit(RLIMIT_AS, (value, value)) *)
MonMem_SetsHardToo ==
    /\ ProcessAlive
    /\ monPc = "mem"
    /\ calls' = [calls EXCEPT !.mem = Bump(@)]
    /\ IF SetrlimitOk(ceiling.mem, hard)
         THEN /\ soft' = ceiling.mem
              /\ hard' = ceiling.mem
              /\ monPc' = "cpu"
              /\ UNCHANGED <<supVars, childVars, monError, failedAct>>
         ELSE /\ ThreadDies("mem", "ValueError")
              /\ UNCHANGED <<soft, hard>>
    /\ UNCHANGED <<childSoft, hostVars, cpuVars, ceiling, num_cores, startedAfterSet,
                   completedAfterSet, cyclesDone, firstCycle, actsAtFirst, reapedInCycle>>

(* a faulty variant of MonMem: a ceiling above the hard limit is clamped to it *)
MonMem_Clamps ==
    /\ ProcessAlive
    /\ monPc = "mem"
    /\ calls' = [calls EXCEPT !.mem = Bump(@)]
    /\ soft' = IF SetrlimitOk(ceiling.mem, hard) THEN ceiling.mem ELSE hard
    /\ monPc' = "cpu"
    /\ UNCHANGED <<supVars, childVars, monError, failedAct>>
    /\ UNCHANGED <<hard, childSoft, hostVars, cpuVars, ceiling, num_cores, startedAfterSet,
                   completedAfterSet, cyclesDone, firstCycle, actsAtFirst, reapedInCycle>>

(* a faulty variant of MonMem: the limit of the child is set as well *)
MonMem_SetsChildLimit ==
    /\ ProcessAlive
    /\ monPc = "mem"
    /\ calls' = [calls EXCEPT !.mem = Bump(@)]
    /\ IF SetrlimitOk(ceiling.mem, hard)
         THEN /\ soft' = ceiling.mem
              /\ childSoft' = Some(ceiling.mem)
              /\ monPc' = "cpu"
              /\ UNCHANGED <<supVars, childVars, monError, failedAct>>
         ELSE /\ ThreadDies("mem", "ValueError")
              /\ UNCHANGED <<soft, childSoft>>
    /\ UNCHANGED <<hard, hostVars, cpuVars, ceiling, num_cores, startedAfterSet,
                   completedAfterSet, cyclesDone, firstCycle, actsAtFirst, reapedInCycle>>

(* adjust_memory_limit(process, max_memory_bytes): the soft limit of the calling *)
(* process becomes the ceiling and the hard limit is passed back as it was read; *)
(* setrlimit raises ValueError when the ceiling exceeds the hard limit           *)
MonMem ==
    /\ ProcessAlive
    /\ monPc = "mem"
    /\ calls' = [calls EXCEPT !.mem = Bump(@)]
    /\ IF SetrlimitOk(ceiling.mem, hard)
         THEN /\ soft' = ceiling.mem
              /\ monPc' = "cpu"
              /\ UNCHANGED <<supVars, childVars, monError, failedAct>>
         ELSE /\ ThreadDies("mem", "ValueError")
              /\ UNCHANGED soft
    /\ UNCHANGED <<hard, childSoft, hostVars, cpuVars, ceiling, num_cores, startedAfterSet,
                   completedAfterSet, cyclesDone,
                   firstCycle, actsAtFirst, reapedInCycle>>

(* the outcomes of psutil.Process(process.pid): NoSuchProcess when the pid is  *)
(* gone (the child has been reaped), unless the host has given the pid to a     *)
(* new process meanwhile                                                        *)
LookupOutcomes ==
    IF child \in {"running", "zombie"} THEN {"ok"} ELSE {"ok", "NoSuchProcess"}

(* adjust_cpu_limit, first part: psutil.Process(process.pid) raises NoSuchProcess *)
(* when no process has the pid; then the core count is read and num_cores         *)
(* computed                                                                       *)
MonCpuLookup ==
    /\ ProcessAlive
    /\ monPc = "cpu"
    /\ calls' = [calls EXCEPT !.cpu = Bump(@)]
    /\ \E r \in LookupOutcomes :
         IF r = "ok"
           THEN /\ num_cores' = NumCores(num_cpus, ceiling.cpu)
                /\ monPc' = "cpu_affinity"
                /\ UNCHANGED <<supVars, childVars, monError, failedAct>>
           ELSE /\ ThreadDies("cpu", r)
                /\ UNCHANGED num_cores
    /\ UNCHANGED <<limitVars, hostVars, cpuVars, ceiling, startedAfterSet,
                   completedAfterSet, cyclesDone,
                   firstCycle, actsAtFirst, reapedInCycle>>

(* the outcomes of a psutil control call on the process of the child's pid: on a *)
(* live child it works, on a zombie the host decides between success and         *)
(* ZombieProcess, on a reaped one it raises NoSuchProcess unless the pid has     *)
(* been given to a new process, which the call then acts on.  A supervisor       *)
(* without CAP_SYS_NICE, root in a container included, is refused with           *)
(* AccessDenied where the process has another owner (a setuid child, a stranger  *)
(* with the pid)                                                                 *)
CallOutcomes ==
    (CASE child = "running" -> {"ok"}
       [] child = "zombie" -> {"ok", "ZombieProcess"}
       [] OTHER -> {"ok", "NoSuchProcess"})
    \cup (IF cap_sys_nice THEN {} ELSE {"AccessDenied"})

(* the core sets p.cpu_affinity(list(range(num_cores))) can leave: of the cores *)
(* asked for the kernel keeps those the cpuset of the target allows; a stranger  *)
(* that has got the pid can be in any cpuset                                     *)
AffinityResults ==
    IF child = "reaped" THEN CoreSets(num_cores)
                        ELSE {CoreList(num_cores) \cap cpuset} \ {{}}

(* the outcomes of p.cpu_affinity(...): AttributeError where the platform has no *)
(* cpu_affinity; ValueError or OSError (EINVAL) where the cpuset of the target   *)
(* allows none of the cores asked for                                            *)
AffinityOutcomes ==
    IF ~affinitySupported
      THEN {"AttributeError"}
      ELSE (IF AffinityResults = {} THEN CallOutcomes \ {"ok"} ELSE CallOutcomes)
           \cup (IF child = "reaped" \/ AffinityResults = {} THEN {"ValueError", "OSError"}
                                                              ELSE {})

(* p.cpu_affinity(list(range(num_cores))): the core set of the process becomes *)
(* what the kernel keeps of the list, or the call raises and the thread ends    *)
MonCpuAffinity ==
    /\ ProcessAlive
    /\ monPc = "cpu_affinity"
    /\ \E r \in AffinityOutcomes :
         IF r = "ok"
           THEN /\ affinity' \in AffinityResults
                /\ monPc' = "cpu_nice"
                /\ UNCHANGED <<supVars, childVars, monError, failedAct>>
           ELSE /\ ThreadDies("cpu", r)
                /\ UNCHANGED affinity
    /\ UNCHANGED <<limitVars, hostVars, nice, ceiling, num_cores, calls, startedAfterSet,
                   completedAfterSet, cyclesDone,
                   firstCycle, actsAtFirst, reapedInCycle>>

(* the outcomes of p.nice(10): without CAP_SYS_NICE the niceness of a process *)
(* cannot be lowered, the call on the child is refused when its niceness is    *)
(* above 10; the niceness of a stranger that has got the pid is not known      *)
NiceOutcomes ==
    IF ~cap_sys_nice /\ child \in {"running", "zombie"} /\ nice > BelowNormal
      THEN CallOutcomes \ {"ok"}
      ELSE CallOutcomes

(* a faulty variant of MonCpuNice: the niceness is raised by 10, as os.nice does *)
MonCpuNice_Relative ==
    /\ ProcessAlive
    /\ monPc = "cpu_nice"
    /\ \E r \in NiceOutcomes :
         IF r = "ok"
           THEN /\ nice' = Min(nice + BelowNormal, MaxNice)
                /\ monPc' = "gpu"
                /\ UNCHANGED <<supVars, childVars, monError, failedAct>>
           ELSE /\ ThreadDies("cpu", r)
                /\ UNCHANGED nice
    /\ UNCHANGED <<limitVars, hostVars, affinity, ceiling, num_cores, calls, startedAfterSet,
                   completedAfterSet, cyclesDone, firstCycle, actsAtFirst, reapedInCycle>>

(* p.nice(10): the niceness is set to 10, or the call raises and the thread ends *)
MonCpuNice ==
    /\ ProcessAlive
    /\ monPc = "cpu_nice"
    /\ \E r \in NiceOutcomes :
         IF r = "ok"
           THEN /\ nice' = BelowNormal
                /\ monPc' = "gpu"
                /\ UNCHANGED <<supVars, childVars, monError, failedAct>>
           ELSE /\ ThreadDies("cpu", r)
                /\ UNCHANGED nice
    /\ UNCHANGED <<limitVars, hostVars, affinity, ceiling, num_cores, calls, startedAfterSet,
                   completedAfterSet, cyclesDone,
                   firstCycle, actsAtFirst, reapedInCycle>>

(* a faulty variant of MonGpu: the actuator terminates the child *)
MonGpu_KillsChild ==
    /\ ProcessAlive
    /\ monPc = "gpu"
    /\ calls' = [calls EXCEPT !.gpu = Bump(@)]
    /\ completedAfterSet' = IF process_finished THEN Bump(completedAfterSet)
                                                ELSE completedAfterSet
    /\ cyclesDone' = Bump(cyclesDone)
    /\ firstCycle' = IF firstCycle = None THEN Some(Resources) ELSE firstCycle
    /\ monPc' = "sleep"
    /\ child' = IF child = "running" THEN "zombie" ELSE child
    /\ exitStatus' = IF child = "running" THEN Some(0) ELSE exitStatus
    /\ UNCHANGED <<childActs, supVars, limitVars, hostVars, cpuVars, ceiling, num_cores,
                   monError, failedAct, startedAfterSet, actsAtFirst, reapedInCycle>>

(* adjust_gpu_limit(process, max_gpu_percent): pass; the three calls of the cycle *)
(* are over                                                                       *)
MonGpu ==
    /\ ProcessAlive
    /\ monPc = "gpu"
    /\ calls' = [calls EXCEPT !.gpu = Bump(@)]
    /\ completedAfterSet' = IF process_finished THEN Bump(completedAfterSet)
                                                ELSE completedAfterSet
    /\ cyclesDone' = Bump(cyclesDone)
    /\ firstCycle' = IF firstCycle = None THEN Some(Resources) ELSE firstCycle
    /\ monPc' = "sleep"
    /\ UNCHANGED <<supVars, childVars, limitVars, hostVars, cpuVars, ceiling, num_cores,
                   monError, failedAct, startedAfterSet, actsAtFirst, reapedInCycle>>

(* time.sleep(1) *)
MonSleep ==
    /\ ProcessAlive
    /\ monPc = "sleep"
    /\ monPc' = "check"
    /\ UNCHANGED <<supVars, childVars, limitVars, hostVars, cpuVars, ceiling, num_cores,
                   monError, failedAct, calls, startedAfterSet, completedAfterSet, cyclesDone, firstCycle, actsAtFirst,
                   reapedInCycle>>

Monitor ==
    MonCheck \/ MonPoll \/ MonMem \/ MonCpuLookup \/ MonCpuAffinity \/ MonCpuNice
        \/ MonGpu \/ MonSleep

----------------------------------------------------------------------------

Next == Supervisor \/ Monitor \/ Child

Spec == Init /\ [][Next]_vars

(* a SIGINT reaches the main thread in this step *)
Sigint ==
    /\ runError # "KeyboardInterrupt"
    /\ runError' = "KeyboardInterrupt" \/ programExit' = Some(-SIGINT)

(* The main thread is always scheduled again: each of its steps that can be taken *)
(* is taken.  Nothing is assumed of the monitor thread, of the child, or of a     *)
(* SIGINT arriving.                                                               *)
FairSpec == Spec /\ WF_vars(Supervisor /\ ~Sigint)

(* The actuators as functions of their arguments: the loop is about to make the *)
(* three calls of its first cycle, with ceilings drawn from the whole range an   *)
(* actuator can be given, not only the values of the Limit Policy stubs, on a    *)
(* child that runs, that has ended and is a zombie, or that the supervisor's     *)
(* wait has reaped (before or after the Event was set).                          *)
Percents == 0..100

MemCeilings == {k * MiB512 : k \in 0..(HardUnits + 1)}

ActuatorInit ==
    /\ monPc = "mem"
    /\ \/ /\ child = "running"
          /\ supPc = "wait"
          /\ exitStatus = None
          /\ returncode = None
       \/ /\ child = "zombie"
          /\ supPc = "wait"
          /\ exitStatus = Some(0)
          /\ returncode = None
       \/ /\ child = "reaped"
          /\ supPc \in {"set", "returned"}
          /\ exitStatus = Some(0)
          /\ returncode = exitStatus
    /\ process_finished = (supPc = "returned")
    /\ setCount = IF supPc = "returned" THEN 1 ELSE 0
    /\ childActs = 0
    /\ hard \in HardLimits
    /\ soft \in {s \in HardLimits : RlimLE(s, hard)}
    /\ childSoft = Some(soft)
    /\ num_cpus \in 1..MaxCpus
    /\ affinitySupported \in BOOLEAN
    /\ cap_sys_nice \in BOOLEAN
    /\ cpuset \in (IF affinitySupported THEN CoreSets(num_cpus) ELSE {0..(num_cpus - 1)})
    /\ affinity \in (IF affinitySupported THEN {cs \in CoreSets(num_cpus) : cs \subseteq cpuset}
                                          ELSE {cpuset})
    /\ nice \in NiceLevels
    /\ ceiling \in [mem : MemCeilings, cpu : Percents, gpu : {get_max_gpu}]
    /\ num_cores = 0
    /\ monError = "none"
    /\ failedAct = "none"
    /\ runResult = None
    /\ runError = "none"
    /\ programExit = None
    /\ calls = NoCalls
    /\ startedAfterSet = 0
    /\ completedAfterSet = 0
    /\ cyclesDone = 0
    /\ firstCycle = None
    /\ actsAtFirst = 0
    /\ reapedInCycle = FALSE

ActuatorNext == MonMem \/ MonCpuLookup \/ MonCpuAffinity \/ MonCpuNice \/ MonGpu

ActuatorSpec == ActuatorInit /\ [][ActuatorNext]_vars

TypeOK ==
    /\ supPc \in {"spawn", "start_thread", "wait", "set", "returned", "raised",
                  "exited"}
    /\ monPc \in {"idle", "check", "poll", "mem", "cpu", "cpu_affinity", "cpu_nice", "gpu",
                  "sleep", "stopped", "dead"}
    /\ child \in {"none", "running", "zombie", "reaped"}
    /\ process_finished \in BOOLEAN
    /\ hard \in HardLimits
    /\ RlimLE(soft, hard)
    /\ cpuset \in CoreSets(num_cpus)
    /\ affinity \in CoreSets(num_cpus)
    /\ (child # "reaped" => affinity \subseteq cpuset)
    /\ nice \in MinNice..MaxNice
    /\ cap_sys_nice \in BOOLEAN
    /\ childActs \in 0..MaxChildActs
    /\ actsAtFirst \in 0..childActs
    /\ exitStatus \in {None} \cup {Some(c) : c \in ExitCodes}
    /\ returncode \in {None} \cup {Some(c) : c \in ExitCodes}
    /\ runError \in {"none", "RuntimeError", "KeyboardInterrupt"} \cup SpawnErrors
    /\ programExit \in {None, Some(0), Some(1), Some(-SIGINT)}

----------------------------------------------------------------------------
(* Properties *)

ChildExited == child \in {"zombie", "reaped"}
AllOnce == [mem |-> 1, cpu |-> 1, gpu |-> 1]

(* C1: once process_finished is set, the loop begins no cycle whose signal check  *)
(* saw it set, and at most one cycle (the one whose check came before the set)    *)
(* completes after the set.                                                       *)
C1_NoCycleAfterSignal ==
    /\ startedAfterSet = 0
    /\ completedAfterSet <= 1
    /\ (monPc = "stopped" => process_finished)

(* C1 witness: a cycle in flight completed after the set, then the loop stopped *)
C1_Witness ==
    /\ process_finished
    /\ completedAfterSet = 1
    /\ monPc = "stopped"

(* C2: after the CPU actuator has failed the loop is still alive, and in the cycle *)
(* of the failure its next call is the GPU actuator.                               *)
C2_CpuFailureIsolated ==
    failedAct = "cpu" =>
        /\ monPc # "dead"
        /\ (calls.gpu = 0 => monPc = "gpu")

(* C3: when the supervisor's wait reaps the child between the signal check of a *)
(* cycle and its CPU call and the CPU actuator then finds no process of that    *)
(* pid, it is the CPU actuator that fails, with NoSuchProcess, and the loop is  *)
(* not ended by it.                                                             *)
C3_ProcessNotFoundNonFatal ==
    (reapedInCycle /\ calls.cpu = 1 /\ monError = "NoSuchProcess") =>
        /\ failedAct = "cpu"
        /\ monPc # "dead"

(* C4: when run() has returned, its result is the status the child ended with, *)
(* and the exit code of the program is that status too.                        *)
C4_ExitCodePropagated ==
    (supPc \in {"returned", "exited"} /\ runError = "none") =>
        /\ runResult = exitStatus
        /\ (supPc = "exited" => programExit = exitStatus)

(* C5: no actuator is invoked twice in a cycle, and a cycle that has ended (the   *)
(* loop sleeps, or the thread is gone) has invoked each of the three actuators    *)
(* once.                                                                          *)
C5_AllThreePerCycle ==
    /\ \A a \in {"mem", "cpu", "gpu"} : calls[a] <= 1
    /\ (monPc \in {"sleep", "dead"} => calls = AllOnce)

(* C6: a memory actuator that fails with an invalid limit does not end the loop. *)
C6_InvalidLimitNonFatal ==
    (failedAct = "mem" /\ monError = "ValueError") => monPc # "dead"

(* C7: process_finished starts not set, never goes back to not set, is changed    *)
(* only by the supervisor's set(), is set at most once, and is set only when the  *)
(* child has exited.                                                              *)
C7_TerminationSignal ==
    /\ ~process_finished
    /\ [][process_finished => process_finished']_vars
    /\ [][process_finished' # process_finished => SupSet]_vars
    /\ [](setCount <= 1)
    /\ [](process_finished => ChildExited)

(* C7 witness: the signal was set, once, and the loop has seen it *)
C7_Witness ==
    /\ process_finished
    /\ setCount = 1
    /\ monPc = "stopped"

(* the exceptions an actuator call ends the monitor thread with *)
ActuatorErrors ==
    {"ValueError", "OSError", "AttributeError", "NoSuchProcess", "ZombieProcess",
     "AccessDenied"}

(* a SIGINT has reached the main thread *)
Interrupted == runError = "KeyboardInterrupt" \/ programExit = Some(-SIGINT)

(* C8: the step in which an actuator fails changes nothing of the supervisor or   *)
(* of the child, and the exception of the actuator never is the exception of      *)
(* run(); after a failure, whatever the actuator, the supervisor stays in its     *)
(* wait while the child runs and leaves it only for line 80 once the child has    *)
(* exited, the child leaves "running" only by its own end, and once the child has *)
(* exited the supervisor sets the signal and the program ends with status 0; the  *)
(* one other course run() takes after a failure is the one it takes without any:  *)
(* a SIGINT to the main thread.                                                   *)
C8_FailureContained ==
    /\ [][failedAct' # failedAct => UNCHANGED <<supVars, childVars>>]_vars
    /\ [](failedAct # "none" => (monError \in ActuatorErrors /\ runError # monError))
    /\ []((failedAct # "none" /\ child = "running" /\ runError = "none") => supPc = "wait")
    /\ [][(failedAct # "none" /\ supPc = "wait" /\ supPc' # "wait")
             => \/ ChildExited /\ supPc' = "set"
                \/ runError' = "KeyboardInterrupt" /\ supPc' = "raised"]_vars
    /\ [][(failedAct # "none" /\ child = "running" /\ child' # "running") => ChildExit]_vars
    /\ [][(failedAct # "none" /\ runError = "none")
             => runError' \in {"none", "KeyboardInterrupt"}]_vars
    /\ ((failedAct # "none" /\ ChildExited /\ runError = "none")
           ~> \/ process_finished /\ supPc = "exited" /\ programExit = Some(0)
              \/ Interrupted)

(* C8 witness: the CPU actuator failed on a child that ran, and the program *)
(* still ended normally                                                     *)
C8_Witness ==
    /\ failedAct = "cpu"
    /\ monError = "AccessDenied"
    /\ process_finished
    /\ supPc = "exited"
    /\ programExit = Some(0)

(* C9: when the spawn has failed (Popen raised, whichever the exception), run() *)
(* has ended with the error, the monitor thread was never started, no actuator  *)
(* was invoked and the signal is not set.                                       *)
C9_SpawnErrorNoMonitoring ==
    runError \in SpawnErrors =>
        /\ supPc \in {"raised", "exited"}
        /\ child = "none"
        /\ monPc = "idle"
        /\ calls = NoCalls
        /\ ~process_finished
        /\ setCount = 0

(* C9 witness: the spawn failed and the program has ended with the error *)
C9_Witness ==
    /\ runError = "IndexError"
    /\ supPc = "exited"
    /\ programExit = Some(1)

(* C10: the end of the program is never held back by the position of the monitor *)
(* thread (once run() has ended the interpreter can exit), and once the child has *)
(* exited the supervisor sets the signal and the program ends.                    *)
C10_ShutdownNotBlocked ==
    /\ [](supPc \in {"returned", "raised"} => ENABLED ProgramExit)
    /\ (ChildExited ~> (process_finished /\ supPc = "exited"))

(* floor(n * p / 100) for n * p >= 0, by its defining inequalities *)
FloorPercent(n, p) == CHOOSE k \in 0..(n * p) : k * 100 <= n * p /\ n * p < (k + 1) * 100

(* C11: for every core count N >= 1 and ceiling 0 <= p <= 100, once the CPU      *)
(* actuator has set the affinity of the child (the process of the pid is the     *)
(* child, running or a zombie) it is exactly {0, ..., cores - 1} with            *)
(* cores = max(1, floor(N * p / 100)): not empty, not more than N cores.         *)
C11_CorePrefix ==
    (monPc \in {"cpu_nice", "gpu", "sleep"} /\ child \in {"running", "zombie"}
       /\ ceiling.cpu \in 0..100) =>
        LET f == FloorPercent(num_cpus, ceiling.cpu)
            cores == IF f < 1 THEN 1 ELSE f
        IN  /\ affinity = {c \in 0..(num_cpus - 1) : c < cores}
            /\ Cardinality(affinity) = cores
            /\ affinity # {}
            /\ Cardinality(affinity) <= num_cpus

(* C12: a memory actuator call with a ceiling B, 0 <= B <= hard limit, sets the  *)
(* soft limit to exactly B and leaves the hard limit as it was.                  *)
C12_SoftLimitSet ==
    [][(monPc = "mem" /\ calls'.mem # calls.mem /\ ceiling.mem >= 0
          /\ (hard = RLIM_INFINITY \/ ceiling.mem <= hard))
         => (soft' = ceiling.mem /\ hard' = hard /\ monPc' = "cpu" /\ failedAct' = "none")]_vars

(* C12 witness: the soft limit was lowered to a ceiling below the hard limit *)
C12_Witness ==
    /\ calls.mem = 1
    /\ failedAct = "none"
    /\ soft = ceiling.mem
    /\ hard # RLIM_INFINITY
    /\ soft < hard
    /\ childSoft # Some(soft)

(* C13: a memory actuator call with a ceiling above the hard limit fails with   *)
(* ValueError (the InvalidLimit of the design) and leaves the soft and the hard *)
(* limit as they were.                                                          *)
C13_AboveHardLimitFails ==
    [][(monPc = "mem" /\ calls'.mem # calls.mem /\ hard # RLIM_INFINITY /\ ceiling.mem > hard)
         => (failedAct' = "mem" /\ monError' = "ValueError" /\ soft' = soft /\ hard' = hard)]_vars

(* C13 witness: the call failed on a ceiling above the hard limit, limits kept *)
C13_Witness ==
    /\ failedAct = "mem"
    /\ monError = "ValueError"
    /\ ceiling.mem > hard
    /\ hard # RLIM_INFINITY
    /\ childSoft = Some(soft)

(* C14: in every cycle the CPU actuator is invoked only after the memory call  *)
(* of that cycle has ended, and the GPU actuator only after its CPU call has    *)
(* ended.                                                                       *)
C14_ActuatorOrder ==
    /\ (calls.cpu >= 1 => (calls.mem = 1 /\ monPc \notin {"poll", "mem"}))
    /\ (calls.gpu >= 1 =>
           (calls.cpu = 1 /\ monPc \notin {"poll", "mem", "cpu", "cpu_affinity", "cpu_nice"}))

(* C14 witness: a cycle has made its three calls *)
C14_Witness ==
    /\ calls = AllOnce
    /\ monPc = "sleep"
    /\ cyclesDone = 1

(* C15: the monitor thread is started once, from run(); the loop reaches its    *)
(* signal check only from the start of the thread or from the end of a sleep,   *)
(* and a cycle begins, and makes its first actuator call, only when the cycle   *)
(* before it has made its three calls.                                          *)
C15_CyclesSequential ==
    /\ [][(monPc' = "check" /\ monPc # "check")
             => (monPc = "sleep" \/ (monPc = "idle" /\ SupStartThread))]_vars
    /\ [][monPc # "idle" => monPc' # "idle"]_vars
    /\ [][(monPc' = "poll" /\ monPc # "poll")
             => (monPc = "check" /\ calls \in {NoCalls, AllOnce})]_vars
    /\ [][calls'.mem > calls.mem => (calls = NoCalls /\ monPc = "mem")]_vars

(* C15 witness: two cycles are over and a third has begun *)
C15_Witness ==
    /\ cyclesDone = 2
    /\ monPc = "mem"
    /\ calls = NoCalls

(* C16: a step of the monitor loop leaves the liveness of the child, its exit   *)
(* status, proc.returncode, the Event and all of run() as they were, and the    *)
(* hard limit, the limit of the child and the host too; the child leaves        *)
(* "running" only by its own exit.                                              *)
C16_LifecycleUntouched ==
    /\ [][Monitor => UNCHANGED <<supVars, childVars, hard, childSoft, hostVars>>]_vars
    /\ [][(child = "running" /\ child' # "running") => ChildExit]_vars

(* C16 witness: a whole cycle has acted on a child that still runs *)
C16_Witness ==
    /\ monPc = "sleep"
    /\ child = "running"
    /\ nice = BelowNormal
    /\ soft = get_max_memory

(* C17: the child exists before the first memory actuator call; its limit is    *)
(* fixed at spawn to the soft limit the supervisor has then and never changes   *)
(* afterwards; a memory actuator call changes the soft limit of the supervisor  *)
(* and nothing else of the limits, of the child or of its CPU attributes.       *)
C17_ChildLimitFixedAtSpawn ==
    /\ [][calls'.mem > calls.mem => (child # "none" /\ childSoft # None)]_vars
    /\ [][childSoft' # childSoft => (SupSpawn /\ childSoft' = Some(soft))]_vars
    /\ [][(monPc = "mem" /\ calls'.mem > calls.mem)
             => UNCHANGED <<hard, childSoft, cpuVars, childVars>>]_vars

(* C17 witness: the supervisor is at the ceiling, the child at another limit *)
C17_Witness ==
    /\ calls.mem = 1
    /\ soft = get_max_memory
    /\ childSoft # None
    /\ childSoft # Some(get_max_memory)

(* the last step of a cycle that is not the first of the loop *)
LaterCycleEnds == monPc = "gpu" /\ monPc' = "sleep" /\ cyclesDone >= 1

(* C18 as stated: when the second or a later cycle ends on a child that runs, *)
(* the resource state (soft and hard limit, affinity and niceness of the      *)
(* child) is the one the first cycle left.                                    *)
C18_AnyCycleEqualsFirst ==
    [][(LaterCycleEnds /\ child = "running") => firstCycle = Some(Resources')]_vars

(* C18: when the second or a later cycle ends on a child that runs and that has *)
(* not changed its own niceness or core set since the first cycle began, the    *)
(* resource state (soft and hard limit, affinity and niceness of the child) is  *)
(* the one the first cycle left: the niceness is the one of the first cycle,    *)
(* not lowered again.                                                           *)
C18_CycleIdempotent ==
    [][(LaterCycleEnds /\ child = "running" /\ childActs = actsAtFirst)
         => firstCycle = Some(Resources')]_vars

(* C18 witness: a second cycle has ended on a child that still runs, that gave *)
(* itself another niceness before the loop began and has left its attributes   *)
(* alone since; the state is the one of the first cycle                        *)
C18_Witness ==
    /\ monPc = "sleep"
    /\ cyclesDone = 2
    /\ child = "running"
    /\ childActs = 1
    /\ actsAtFirst = 1
    /\ firstCycle = Some(Resources)

====
